---- MODULE Spec2Model ----
(***************************************************************************)
(* Model of the clients and the web API of my-personal-assistant:          *)
(*   - core.jira_client.JiraClient     (query builder, single request)     *)
(*   - clients.jira_client.JiraClient  (retrying client used by the API)   *)
(*   - routers.jira                    (the /jira/... endpoints)           *)
(*   - jira_assistant.llm_client.LLMClient (text-generation gateway)       *)
(*   - main                            (/, /health and /generate)          *)
(*                                                                         *)
(* A Python str is modelled as a text: the sequence of the fragments it    *)
(* is assembled from (literal pieces of an f-string and the interpolated   *)
(* values), so that "contains" and "joined by" are checkable.  An          *)
(* Optional[...] argument is None or Some(v).                              *)
(***************************************************************************)
EXTENDS Integers, Sequences, FiniteSets, TLC

VARIABLES
    env,       \* process environment: variable name -> None | Some(value)
    client,    \* the JiraClient object (NoClient before construction)
    conn,      \* client._client, the httpx.AsyncClient: "none" | "open" | "closed"
    call,      \* the fetch call in flight on the client (Idle when none)
    wire,      \* the HTTP request currently sent to the tracker (None when none)
    outcome,   \* what the last finished operation gave its caller
    history,   \* facts about earlier operations: a rejected call, requests
               \* served, what the builder gave for the probe Filter Set
    reply,     \* the web API's HTTP response to the request being served
    llm_client,\* main.llm_client, the one LLMClient of the process (or None)
    startup,   \* what LLMClient() did when the application module was loaded
    gens       \* per caller: its generation or status request in progress

vars == <<env, client, conn, call, wire, outcome, history, reply,
          llm_client, startup, gens>>

\* The state of the issue-fetch side and of the text-generation side.
jira_vars == <<client, conn, call, wire, outcome, history, reply>>

llm_vars == <<llm_client, startup, gens>>

\* ------------------------------------------------------------ Python values

None == [some |-> FALSE]

Some(v) == [some |-> TRUE, val |-> v]

\* Python truthiness of an Optional[str]: None and "" are falsy.
TruthyStr(o) == o.some /\ o.val # ""

\* Python truthiness of an Optional[list]: None and [] are falsy.
TruthyList(o) == o.some /\ o.val # <<>>

\* `a or b` on Optional[str] values.
OrElse(a, b) == IF TruthyStr(a) THEN a ELSE b

Return(v) == [kind |-> "return", value |-> v]

Raise(e) == [kind |-> "raise", exc |-> e]

\* sep.join(parts), parts a sequence of texts, sep a fragment.
RECURSIVE Join(_, _)
Join(parts, sep) ==
    IF parts = <<>> THEN <<>>
    ELSE IF Len(parts) = 1 THEN parts[1]
    ELSE parts[1] \o <<sep>> \o Join(Tail(parts), sep)

\* [f'"{x}"' for x in xs]
Quoted(xs) == [i \in 1..Len(xs) |-> <<"\"", xs[i], "\"">>]

Contains(text, fragment) == \E i \in 1..Len(text) : text[i] = fragment

Count(text, fragment) == Cardinality({i \in 1..Len(text) : text[i] = fragment})

\* ------------------------------------------------------------------- URLs

\* urllib.parse.urljoin(base, rel) for a relative reference rel and a base
\* URL without a path component (every base URL of the model, as in the
\* repository's tests): rel is appended, after a "/" when base lacks one.
urljoin(base, rel) ==
    base \o (IF base[Len(base)] = "/" THEN <<>> ELSE <<"/">>) \o rel

JIRA_API_VERSION == "rest/api/2"

\* ------------------------------------------------------ core query builder

\* Faulty variant: "Backlog" left out of the list.
allowed_statuses_without_backlog ==
    <<"To Do", "In Progress", "Done", "Selected for Development">>

allowed_statuses ==
    <<"To Do", "In Progress", "Done", "Backlog", "Selected for Development">>

InList(x, xs) == \E i \in 1..Len(xs) : xs[i] = x

FilterValidationError(status) ==
    [type |-> "FilterValidationError",
     message |-> <<"Invalid status: '", status, "'. ", "Allowed statuses are: ">>
                 \o Join([i \in 1..Len(allowed_statuses) |-> <<allowed_statuses[i]>>], ", ")]

\* Faulty variant: the project key wrapped in double quotes.
jql_parts_project_quoted(project_key, issue_types, labels, assignee) ==
    (IF TruthyStr(project_key) THEN << <<"project = ", "\"", project_key.val, "\"">> >>
     ELSE <<>>)
    \o (IF TruthyList(issue_types)
        THEN << <<"issueType in (">> \o Join(Quoted(issue_types.val), ", ") \o <<")">> >>
        ELSE <<>>)
    \o (IF TruthyList(labels)
        THEN << <<"labels in (">> \o Join(Quoted(labels.val), ", ") \o <<")">> >>
        ELSE <<>>)
    \o (IF TruthyStr(assignee) THEN << <<"assignee = \"", assignee.val, "\"">> >> ELSE <<>>)

\* The clauses appended to jql_parts before the status check, in code order.
jql_parts(project_key, issue_types, labels, assignee) ==
    (IF TruthyStr(project_key) THEN << <<"project = ", project_key.val>> >> ELSE <<>>)
    \o (IF TruthyList(issue_types)
        THEN << <<"issueType in (">> \o Join(Quoted(issue_types.val), ", ") \o <<")">> >>
        ELSE <<>>)
    \o (IF TruthyList(labels)
        THEN << <<"labels in (">> \o Join(Quoted(labels.val), ", ") \o <<")">> >>
        ELSE <<>>)
    \o (IF TruthyStr(assignee) THEN << <<"assignee = \"", assignee.val, "\"">> >> ELSE <<>>)

\* Faulty variant: the labels clause appended after the assignee clause.
build_jql_query_labels_last(project_key, issue_types, labels, assignee, status) ==
    LET parts == jql_parts(project_key, issue_types, None, assignee)
                 \o jql_parts(None, None, labels, None)
    IN  IF TruthyStr(status)
        THEN IF ~InList(status.val, allowed_statuses)
             THEN Raise(FilterValidationError(status.val))
             ELSE Return(Join(parts \o << <<"status = \"", status.val, "\"">> >>, " AND "))
        ELSE Return(Join(parts, " AND "))

\* Faulty variant: the status clause appended without the allow-list check.
build_jql_query_unchecked(project_key, issue_types, labels, assignee, status) ==
    LET parts == jql_parts(project_key, issue_types, labels, assignee)
    IN  IF TruthyStr(status)
        THEN Return(Join(parts \o << <<"status = \"", status.val, "\"">> >>, " AND "))
        ELSE Return(Join(parts, " AND "))

\* Faulty variant: the status tested with `is not None` instead of truth.
build_jql_query_status_not_none(project_key, issue_types, labels, assignee, status) ==
    LET parts == jql_parts(project_key, issue_types, labels, assignee)
    IN  IF status.some
        THEN IF ~InList(status.val, allowed_statuses)
             THEN Raise(FilterValidationError(status.val))
             ELSE Return(Join(parts \o << <<"status = \"", status.val, "\"">> >>, " AND "))
        ELSE Return(Join(parts, " AND "))

\* core JiraClient._build_jql_query
build_jql_query(project_key, issue_types, labels, assignee, status) ==
    LET parts == jql_parts(project_key, issue_types, labels, assignee)
    IN  IF TruthyStr(status)
        THEN IF ~InList(status.val, allowed_statuses)
             THEN Raise(FilterValidationError(status.val))
             ELSE Return(Join(parts \o << <<"status = \"", status.val, "\"">> >>, " AND "))
        ELSE Return(Join(parts, " AND "))

\* ------------------------------------------------------- core construction

EnvVars == {"JIRA_BASE_URL", "JIRA_USERNAME", "JIRA_API_TOKEN"}

\* The values the environment gives the three variables when they are set.
EnvValue(name) ==
    CASE name = "JIRA_BASE_URL" -> "https://test.jira.com"
      [] name = "JIRA_USERNAME" -> "testuser"
      [] name = "JIRA_API_TOKEN" -> "testtoken"

os_getenv(name) == env[name]

ValueError(what, variable) ==
    [type |-> "ValueError",
     message |-> <<what, " must be provided or set as ", variable,
                   " environment variable.">>]

NoClient == [variant |-> "none"]

\* Faulty variant: the check of the API token left out.
core_init_token_unchecked(base_url, username, api_token) ==
    LET b == OrElse(base_url, os_getenv("JIRA_BASE_URL"))
        u == OrElse(username, os_getenv("JIRA_USERNAME"))
        t == OrElse(api_token, os_getenv("JIRA_API_TOKEN"))
    IN  IF ~TruthyStr(b) THEN Raise(ValueError("Jira base URL", "JIRA_BASE_URL"))
        ELSE IF ~TruthyStr(u) THEN Raise(ValueError("Jira username", "JIRA_USERNAME"))
        ELSE Return([variant |-> "core", base_url |-> b, username |-> u,
                     api_token |-> t,
                     api_base_url |-> urljoin(<<b.val>>, <<JIRA_API_VERSION, "/">>)])

\* core JiraClient.__init__ up to the creation of httpx.AsyncClient: the
\* client object it builds, or the ValueError it raises.
core_init(base_url, username, api_token) ==
    LET b == OrElse(base_url, os_getenv("JIRA_BASE_URL"))
        u == OrElse(username, os_getenv("JIRA_USERNAME"))
        t == OrElse(api_token, os_getenv("JIRA_API_TOKEN"))
    IN  IF ~TruthyStr(b) THEN Raise(ValueError("Jira base URL", "JIRA_BASE_URL"))
        ELSE IF ~TruthyStr(u) THEN Raise(ValueError("Jira username", "JIRA_USERNAME"))
        ELSE IF ~TruthyStr(t) THEN Raise(ValueError("Jira API token", "JIRA_API_TOKEN"))
        ELSE Return([variant |-> "core", base_url |-> b, username |-> u,
                     api_token |-> t,
                     api_base_url |-> urljoin(<<b.val>>, <<JIRA_API_VERSION, "/">>)])

\* ------------------------------------------------------------ the tracker

\* An issue of a result page as the tracker returns it.
Issue(key, assignee) ==
    [id |-> "10001", key |-> key,
     fields |-> [summary |-> "Test Issue", issuetype |-> "Task", status |-> "To Do",
                 assignee |-> assignee, labels |-> <<"test", "backend">>]]

\* Result pages: a JSON object with or without an "issues" entry.
Pages ==
    {[issues |-> Some(<<Issue("TEST-1", Some("test-user")), Issue("TEST-2", None)>>),
      total |-> 2],
     [issues |-> Some(<<>>), total |-> 0],
     [issues |-> None, total |-> 0]}

HTTPStatusError(code) == [type |-> "HTTPStatusError", status_code |-> code]

\* httpx.RequestError (a subclass of it) raised by the transport.
RequestErrors == {[type |-> "ConnectError"]}

\* What the tracker and the network can do with one request: answer 2xx
\* with a page, answer with an error status (raise_for_status then raises
\* exc), or fail below HTTP (client.request raises exc).
Responses ==
    {[kind |-> "json", page |-> p] : p \in Pages}
    \cup {[kind |-> "status_error", exc |-> HTTPStatusError(c)] : c \in {401, 500}}
    \cup {[kind |-> "network_error", exc |-> e] : e \in RequestErrors}

\* dict.get("issues", [])
get_issues(page) == IF page.issues.some THEN page.issues.val ELSE <<>>

\* ------------------------------------------------------- core fetch calls

Idle == [pc |-> "idle"]

NoOutcome == [op |-> "none"]

\* What an operation gave its caller (res), with the number of request
\* attempts it made, how many of them the tracker answered with an error
\* status, and what the transport did with the last one.
Outcome(op, args, res, attempts, status_errors, transport) ==
    [op |-> op, args |-> args, res |-> res, attempts |-> attempts,
     status_errors |-> status_errors, transport |-> transport]

default_fields ==
    Join(<< <<"summary">>, <<"status">>, <<"assignee">>, <<"labels">>, <<"issuetype">>,
            <<"priority">>, <<"reporter">>, <<"created">>, <<"updated">>, <<"duedate">>,
            <<"parent">> >>, ",")

default_start_at == 0

default_max_results == 50

\* Faulty variant: the page size of the other client as the default.
search_params_page_of_100(jql, fields, start_at, max_results) ==
    [jql |-> jql,
     startAt |-> IF start_at.some THEN start_at.val ELSE default_start_at,
     maxResults |-> IF max_results.some THEN max_results.val ELSE 100,
     fields |-> IF TruthyList(fields)
                THEN Join([i \in 1..Len(fields.val) |-> <<fields.val[i]>>], ",")
                ELSE default_fields]

\* The params dict core JiraClient.search_issues builds; start_at and
\* max_results are None when the caller leaves them to their defaults.
search_params(jql, fields, start_at, max_results) ==
    [jql |-> jql,
     startAt |-> IF start_at.some THEN start_at.val ELSE default_start_at,
     maxResults |-> IF max_results.some THEN max_results.val ELSE default_max_results,
     fields |-> IF TruthyList(fields)
                THEN Join([i \in 1..Len(fields.val) |-> <<fields.val[i]>>], ",")
                ELSE default_fields]

\* The request core JiraClient._request hands to self._client.request.
core_request(method, endpoint, params) ==
    [method |-> method, url |-> urljoin(client.api_base_url, <<endpoint>>),
     params |-> params, auth |-> <<client.username, client.api_token>>]

\* Faulty variant: a failure translated into a RuntimeError.
core_request_result_wrapped(resp) ==
    IF resp.kind = "json" THEN Return(resp.page)
    ELSE Raise([type |-> "RuntimeError", cause |-> resp.exc])

\* What core JiraClient._request gives its caller for the transport's
\* behaviour: the decoded page, or the caught exception re-raised by a bare
\* `raise`.
core_request_result(resp) ==
    IF resp.kind = "json" THEN Return(resp.page)
    ELSE Raise(resp.exc)

\* Faulty variant: get_tasks without the "Sub-task" type.
core_issue_types_task_only(op) ==
    CASE op = "get_epics" -> <<"Epic">>
      [] op = "get_stories" -> <<"Story">>
      [] op = "get_tasks" -> <<"Task">>

\* The issue_types list each convenience operation fixes.
core_issue_types(op) ==
    CASE op = "get_epics" -> <<"Epic">>
      [] op = "get_stories" -> <<"Story">>
      [] op = "get_tasks" -> <<"Task", "Sub-task">>

GetOps == {"get_epics", "get_stories", "get_tasks"}

\* ----------------------------------------------------------------- inputs

StatusValues ==
    {"To Do", "In Progress", "Done", "Backlog", "Selected for Development",
     "Invalid Status", "ThisStatusShouldNotExist123"}

OptStatus == {None, Some("")} \cup {Some(v) : v \in StatusValues}

OptProject == {None, Some(""), Some("PROJ")}

OptAssignee == {None, Some(""), Some("mork")}

OptIssueTypes == {None, Some(<<>>), Some(<<"Bug">>), Some(<<"Story", "Task">>)}

OptLabels == {None, Some(<<>>), Some(<<"backend">>), Some(<<"frontend", "urgent">>)}

OptFields == {None, Some(<<>>), Some(<<"summary", "status">>)}

\* Constructor arguments: omitted, empty, or given directly.
CtorArgs ==
    [base_url : {None, Some(""), Some("https://direct.jira.com")},
     username : {None, Some(""), Some("directuser")},
     api_token : {None, Some(""), Some("directtoken")}]

\* The two constructions of the unit tests' fixtures: JiraClient() and
\* JiraClient(base_url=..., username=..., api_token=...).
CoreCtorArgs ==
    {[base_url |-> None, username |-> None, api_token |-> None],
     [base_url |-> Some("https://direct.jira.com"), username |-> Some("directuser"),
      api_token |-> Some("directtoken")]}

\* Filter Sets handed to _build_jql_query directly.
FilterSets ==
    [project_key : OptProject, issue_types : OptIssueTypes, labels : OptLabels,
     assignee : OptAssignee, status : OptStatus]

\* Arguments of get_epics / get_stories / get_tasks.
GetArgs ==
    [project_key : {None, Some("PROJ")}, labels : {None, Some(<<"backend">>)},
     assignee : {None, Some("mork")}, status : OptStatus,
     fields : {None, Some(<<"summary", "status">>)}]

\* Arguments of a direct search_issues call.
SearchArgs ==
    [jql : {<<>>, <<"project = ", "PROJ">>}, fields : OptFields,
     start_at : {None, Some(10)}, max_results : {None, Some(100)}]

\* ---------------------------------------------------------- core actions

\* Every environment: each of the three variables set or unset.
Envs ==
    {e \in [EnvVars -> {None} \cup {Some(EnvValue(n)) : n \in EnvVars}] :
        \A n \in EnvVars : e[n] \in {None, Some(EnvValue(n))}}

\* The environment of the unit tests' mock_env_vars fixture.
FullEnv == [n \in EnvVars |-> Some(EnvValue(n))]

\* main.llm_client before the application module is loaded.
NotLoaded == [loaded |-> FALSE]

NoStartup == [done |-> FALSE]

\* The callers that use the process concurrently.
Callers == {"a", "b"}

GenIdle == [pc |-> "idle"]

\* The text-generation side before the application module is loaded.
LLMUntouched ==
    /\ llm_client = NotLoaded
    /\ startup = NoStartup
    /\ gens = [c \in Callers |-> GenIdle]

\* The state before any client is constructed, in an environment of E.
InitIn(E) ==
    /\ LLMUntouched
    /\ env \in E
    /\ client = NoClient
    /\ conn = "none"
    /\ call = Idle
    /\ wire = None
    /\ outcome = NoOutcome
    /\ history = [rejected |-> FALSE, served |-> 0, open_left |-> 0, probe |-> None]
    /\ reply = None

\* JiraClient(base_url, username, api_token): core __init__; the
\* httpx.AsyncClient is created by its last statement.
CoreConstruct(a) ==
    /\ UNCHANGED llm_vars
    /\ client = NoClient
    /\ outcome = NoOutcome
    /\ LET r == core_init(a.base_url, a.username, a.api_token)
       IN  /\ client' = IF r.kind = "return" THEN r.value ELSE client
           /\ conn' = IF r.kind = "return" THEN "open" ELSE conn
           /\ outcome' = Outcome("__init__", a,
                                 IF r.kind = "return" THEN Return("JiraClient") ELSE r,
                                 0, 0, None)
    /\ UNCHANGED <<env, call, wire, history, reply>>

\* A Filter Set with all five fields set, whose results are remembered.
ProbeFilter ==
    [project_key |-> Some("PROJ"), issue_types |-> Some(<<"Story", "Task">>),
     labels |-> Some(<<"frontend", "urgent">>), assignee |-> Some("mork"),
     status |-> Some("Done")]

\* A direct call of core JiraClient._build_jql_query.  The result of the
\* first call with the probe Filter Set is remembered, with the state of
\* the connection at that call.
CoreBuildJql(f) ==
    /\ UNCHANGED llm_vars
    /\ client.variant = "core"
    /\ outcome = NoOutcome
    /\ call = Idle
    /\ LET res == build_jql_query(f.project_key, f.issue_types, f.labels,
                                  f.assignee, f.status)
       IN  /\ outcome' = Outcome("_build_jql_query", f, res, 0, 0, None)
           /\ history' = IF f = ProbeFilter /\ ~history.probe.some
                         THEN [history EXCEPT
                                  !.probe = Some([first |-> res, conn |-> conn])]
                         ELSE history
    /\ UNCHANGED <<env, client, conn, call, wire, reply>>

\* core get_epics / get_stories / get_tasks up to the await of the HTTP
\* request: the query is built (and the status validated) first, then
\* search_issues and _request send the one request.
CoreGet(op, a) ==
    /\ UNCHANGED llm_vars
    /\ client.variant = "core"
    /\ outcome = NoOutcome
    /\ conn = "open"
    /\ call = Idle
    /\ LET jql == build_jql_query(a.project_key, Some(core_issue_types(op)), a.labels,
                                  a.assignee, a.status)
       IN  IF jql.kind = "raise"
           THEN /\ outcome' = Outcome(op, a, jql, 0, 0, None)
                /\ history' = [history EXCEPT !.rejected = TRUE]
                /\ UNCHANGED <<call, wire>>
           ELSE /\ wire' = Some(core_request("GET", "search",
                                    search_params(jql.value, a.fields, None, None)))
                /\ call' = [pc |-> "awaiting", op |-> op, args |-> a, attempts |-> 1]
                /\ outcome' = NoOutcome
                /\ UNCHANGED history
    /\ UNCHANGED <<env, client, conn, reply>>

\* A direct call of core search_issues, up to the await of the request.
CoreSearch(a) ==
    /\ UNCHANGED llm_vars
    /\ client.variant = "core"
    /\ outcome = NoOutcome
    /\ conn = "open"
    /\ call = Idle
    /\ wire' = Some(core_request("GET", "search",
                        search_params(a.jql, a.fields, a.start_at, a.max_results)))
    /\ call' = [pc |-> "awaiting", op |-> "search_issues", args |-> a, attempts |-> 1]
    /\ outcome' = NoOutcome
    /\ UNCHANGED <<env, client, conn, history, reply>>

\* The awaited request finishes: _request returns the page or re-raises,
\* search_issues passes that on, and a get_* operation takes the page's
\* issue list.
CoreRespond(resp) ==
    /\ UNCHANGED llm_vars
    /\ client.variant = "core"
    /\ call.pc = "awaiting"
    /\ LET r == core_request_result(resp)
           res == IF r.kind = "return" /\ call.op \in GetOps
                  THEN Return(get_issues(r.value)) ELSE r
       IN  outcome' = Outcome(call.op, call.args, res, call.attempts,
                              IF resp.kind = "status_error" THEN 1 ELSE 0, Some(resp))
    /\ call' = Idle
    /\ wire' = None
    /\ UNCHANGED <<env, client, conn, history, reply>>

\* core JiraClient.close
CoreClose ==
    /\ UNCHANGED llm_vars
    /\ client.variant = "core"
    /\ outcome = NoOutcome
    /\ conn = "open"
    /\ call = Idle
    /\ conn' = "closed"
    /\ outcome' = Outcome("close", None, Return(None), 0, 0, None)
    /\ UNCHANGED <<env, client, call, wire, history, reply>>

\* The (sequential) caller takes the result of the finished operation and
\* goes on to its next statement.
CallerContinues ==
    /\ UNCHANGED llm_vars
    /\ call = Idle
    /\ outcome # NoOutcome
    /\ outcome' = NoOutcome
    /\ UNCHANGED <<env, client, conn, call, wire, history, reply>>

\* Construction alone, in every environment and with every argument choice.
InitCtor == InitIn(Envs)

NextCtor ==
    \/ \E a \in CtorArgs : CoreConstruct(a)
    \/ CallerContinues

SpecCtor == InitCtor /\ [][NextCtor]_vars

\* The operations of a core client built in the full environment, from the
\* environment alone or from direct arguments.
InitCore == InitIn({FullEnv})

NextCore ==
    \/ \E a \in CoreCtorArgs : CoreConstruct(a)
    \/ \E f \in FilterSets : CoreBuildJql(f)
    \/ \E op \in GetOps, a \in GetArgs : CoreGet(op, a)
    \/ \E a \in SearchArgs : CoreSearch(a)
    \/ \E resp \in Responses : CoreRespond(resp)
    \/ CoreClose
    \/ CallerContinues

SpecCore == InitCore /\ [][NextCore]_vars

\* ------------------------------------------------- properties: core client

\* The five names of the Status Allow-List, as the specification lists them.
AllowList == {"To Do", "In Progress", "Done", "Backlog", "Selected for Development"}

\* The fragment that opens each field's clause, in the fixed field order.
Heads == <<"project = ", "issueType in (", "labels in (", "assignee = \"", "status = \"">>

\* Which of the five fields of Filter Set f are set (non-empty).
Present(f) ==
    <<TruthyStr(f.project_key), TruthyList(f.issue_types), TruthyList(f.labels),
      TruthyStr(f.assignee), TruthyStr(f.status)>>

IndexOf(text, fragment) == CHOOSE i \in 1..Len(text) : text[i] = fragment

\* Text v consists of exactly one clause per set field of f, in the fixed
\* order, with " AND " between consecutive clauses and nowhere else.
ClausesInOrder(f, v) ==
    LET n == Cardinality({k \in 1..5 : Present(f)[k]})
    IN  /\ (n = 0) <=> (v = <<>>)
        /\ \A k \in 1..5 : Count(v, Heads[k]) = IF Present(f)[k] THEN 1 ELSE 0
        /\ Count(v, " AND ") = IF n = 0 THEN 0 ELSE n - 1
        /\ v # <<>> => InList(v[1], Heads) /\ v[Len(v)] # " AND "
        /\ \A i \in 1..Len(v) :
              /\ (v[i] = " AND ") => (i < Len(v) /\ InList(v[i + 1], Heads))
              /\ (i > 1 /\ InList(v[i], Heads)) => v[i - 1] = " AND "
        /\ \A k, l \in 1..5 :
              (k < l /\ Present(f)[k] /\ Present(f)[l])
                  => IndexOf(v, Heads[k]) < IndexOf(v, Heads[l])

\* The specification's scenario: project, two labels and a status.
ScenarioFilter ==
    [project_key |-> Some("PROJ"), issue_types |-> None,
     labels |-> Some(<<"frontend", "urgent">>), assignee |-> None,
     status |-> Some("To Do")]

ScenarioJql ==
    <<"project = ", "PROJ", " AND ", "labels in (", "\"", "frontend", "\"", ", ",
      "\"", "urgent", "\"", ")", " AND ", "status = \"", "To Do", "\"">>

\* C1: whenever core _build_jql_query returns, its result is exactly the
\* clauses of the set fields in the order project, issue-type, labels,
\* assignee, status, joined by " AND ": empty when no field is set, a
\* single clause without " AND " when one field is set.
C1_ClausesInFixedOrder ==
    (outcome.op = "_build_jql_query" /\ outcome.res.kind = "return")
        => /\ ClausesInOrder(outcome.args, outcome.res.value)
           /\ outcome.args = ScenarioFilter => outcome.res.value = ScenarioJql

C1_Witness ==
    /\ outcome.op = "_build_jql_query"
    /\ outcome.res.kind = "return"
    /\ \A k \in 1..5 : Present(outcome.args)[k]
    /\ Count(outcome.res.value, " AND ") = 4

\* The builder's answer for a status outside the allow-list: it raises
\* FilterValidationError whose message holds the value and all five names.
RejectsStatus(res, status) ==
    /\ res.kind = "raise"
    /\ res.exc.type = "FilterValidationError"
    /\ Contains(res.exc.message, status)
    /\ \A a \in AllowList : Contains(res.exc.message, a)

\* The builder's answer for a status of the allow-list: it returns a
\* query that ends with status = "<value>".
EmitsStatus(res, status) ==
    /\ res.kind = "return"
    /\ Len(res.value) >= 3
    /\ SubSeq(res.value, Len(res.value) - 2, Len(res.value)) = <<"status = \"", status, "\"">>

\* C2 as stated: every status value outside the allow-list (the empty
\* string included) makes core _build_jql_query raise, every value of the
\* allow-list makes it emit the status clause.
C2_AsStated ==
    (outcome.op = "_build_jql_query" /\ outcome.args.status.some)
        => IF outcome.args.status.val \in AllowList
           THEN EmitsStatus(outcome.res, outcome.args.status.val)
           ELSE RejectsStatus(outcome.res, outcome.args.status.val)

\* C2 (amended): every non-empty status value outside the allow-list makes
\* core _build_jql_query raise FilterValidationError naming the value and
\* all five allowed names, with no query returned; every value of the
\* allow-list, "Backlog" included, makes it return a query that ends with
\* status = "<value>".
C2_StatusAllowList ==
    (outcome.op = "_build_jql_query" /\ TruthyStr(outcome.args.status))
        => IF outcome.args.status.val \in AllowList
           THEN EmitsStatus(outcome.res, outcome.args.status.val)
           ELSE RejectsStatus(outcome.res, outcome.args.status.val)

C2_Witness ==
    /\ outcome.op = "_build_jql_query"
    /\ outcome.args.status = Some("Invalid Status")
    /\ TruthyStr(outcome.args.project_key)
    /\ outcome.res.kind = "raise"

\* A get_* call whose status is set and outside the allow-list.
InvalidStatusCall(o) ==
    /\ o.op \in GetOps
    /\ TruthyStr(o.args.status)
    /\ o.args.status.val \notin AllowList

C7_TransportFailurePropagates ==
    (outcome.op # "none" /\ outcome.transport.some
     /\ outcome.transport.val.kind # "json")
        => /\ outcome.res = Raise(outcome.transport.val.exc)
           /\ outcome.attempts = 1
           /\ call = Idle
           /\ wire = None

C7_Witness ==
    /\ outcome.op = "search_issues"
    /\ outcome.transport.some
    /\ outcome.transport.val.kind = "status_error"
    /\ outcome.res.kind = "raise"
    /\ outcome.res.exc.type = "HTTPStatusError"

\* ------------------------------------------- properties: core construction

Credentials ==
    {[arg |-> "base_url", variable |-> "JIRA_BASE_URL"],
     [arg |-> "username", variable |-> "JIRA_USERNAME"],
     [arg |-> "api_token", variable |-> "JIRA_API_TOKEN"]}

\* Credential c is neither passed (non-empty) to the constructor call with
\* arguments a nor set in the environment.
Missing(c, a) == ~TruthyStr(a[c.arg]) /\ ~TruthyStr(env[c.variable])

\* C5: constructing the core client with a credential missing raises a
\* ValueError that names a missing credential (and none that is there),
\* with no client object, no HTTP connection object and no request;
\* with all three there, construction succeeds and the connection exists.
C5_MissingCredentialFailsFast ==
    outcome.op = "__init__"
        => IF \E c \in Credentials : Missing(c, outcome.args)
           THEN /\ outcome.res.kind = "raise"
                /\ outcome.res.exc.type = "ValueError"
                /\ \E c \in Credentials :
                      /\ Missing(c, outcome.args)
                      /\ Contains(outcome.res.exc.message, c.variable)
                /\ \A c \in Credentials :
                      Contains(outcome.res.exc.message, c.variable)
                          => Missing(c, outcome.args)
                /\ client = NoClient
                /\ conn = "none"
                /\ wire = None
           ELSE /\ outcome.res.kind = "return"
                /\ client.variant = "core"
                /\ conn = "open"

C5_Witness ==
    /\ outcome.op = "__init__"
    /\ outcome.res.kind = "raise"
    /\ Contains(outcome.res.exc.message, "JIRA_API_TOKEN")
    /\ TruthyStr(outcome.args.base_url)
    /\ TruthyStr(env["JIRA_USERNAME"])
    /\ conn = "none"

\* ------------------------------------- retrying client (clients.JiraClient)

\* os.getenv(name, default)
os_getenv_default(name, default) == IF env[name].some THEN env[name].val ELSE default

\* pydantic HttpUrl(s): the URL text of string s, a trailing "/" of the
\* string being a fragment of its own.
HttpUrl(s) ==
    IF s = "https://your-jira-instance.com/" THEN <<"https://your-jira-instance.com", "/">>
    ELSE <<s>>

\* JiraConfig.ensure_trailing_slash
ensure_trailing_slash(v) == IF v[Len(v)] # "/" THEN v \o <<"/">> ELSE v

\* JiraConfig(base_url, username, api_token), timeout left to its default.
JiraConfig(base_url, username, api_token) ==
    [base_url |-> ensure_trailing_slash(base_url), username |-> username,
     api_token |-> api_token, timeout |-> 30]

\* routers.jira.get_jira_client: the client the dependency hands to a
\* handler; its __init__ creates the httpx.AsyncClient.
get_jira_client ==
    [variant |-> "clients",
     config |-> JiraConfig(
         HttpUrl(os_getenv_default("JIRA_BASE_URL", "https://your-jira-instance.com/")),
         os_getenv_default("JIRA_USERNAME", "your-username"),
         os_getenv_default("JIRA_API_TOKEN", "your-api-token"))]

\* clients JiraClient._build_jql_query
clients_build_jql_query(issue_type, labels, assignee, status) ==
    Join(<< <<"issuetype = \"", issue_type, "\"">> >>
         \o (IF TruthyList(labels)
             THEN << <<"labels in (">> \o Join(Quoted(labels.val), ", ") \o <<")">> >>
             ELSE <<>>)
         \o (IF TruthyStr(assignee)
             THEN << <<"assignee = \"", assignee.val, "\"">> >> ELSE <<>>)
         \o (IF TruthyStr(status)
             THEN << <<"status = \"", status.val, "\"">> >> ELSE <<>>),
         " AND ")

\* The issue type each operation of the retrying client passes.
clients_issue_type(op) ==
    CASE op = "get_epics" -> "Epic"
      [] op = "get_stories" -> "Story"
      [] op = "get_tasks" -> "Task"

\* The request one attempt of clients JiraClient._make_request sends.
clients_request(method, endpoint, params) ==
    [method |-> method, url |-> urljoin(client.config.base_url, <<endpoint>>),
     params |-> params, auth |-> <<client.config.username, client.config.api_token>>]

\* The request get_epics / get_stories / get_tasks hand to _make_request.
clients_search_request(op, a) ==
    clients_request("GET", "rest/api/2/search",
        [jql |-> clients_build_jql_query(clients_issue_type(op), a.labels, a.assignee,
                                         a.status),
         maxResults |-> 100])

\* One attempt of the body of _make_request.
make_request_attempt(resp) ==
    IF resp.kind = "json" THEN Return(resp.page) ELSE Raise(resp.exc)

max_attempt_number == 3

\* Faulty variant: a stop condition that never holds.
stop_after_attempt_never(attempt_number) == FALSE

\* tenacity stop_after_attempt(3): give up once this many attempts were made.
stop_after_attempt(attempt_number) == attempt_number >= max_attempt_number

Max(a, b) == IF a >= b THEN a ELSE b

Min(a, b) == IF a <= b THEN a ELSE b

\* tenacity wait_exponential(multiplier=1, min=4, max=10): the seconds
\* slept after failed attempt number attempt_number.
wait_exponential(attempt_number) ==
    Max(Max(0, 4), Min(1 * 2 ^ (attempt_number - 1), 10))

\* The retry decorator is built without reraise=True: when it gives up it
\* raises tenacity.RetryError, which wraps the last attempt.
RetryError(last_exc) == [type |-> "RetryError", last_attempt |-> last_exc]

\* --------------------------------------------------- the /jira/... router

Endpoints == GetOps

\* The query parameters of a request to an issue endpoint.
WebArgs ==
    [labels : {None, Some(<<"backend">>)}, assignee : {None, Some("test-user")},
     status : {None, Some(""), Some("To Do"), Some("Backlog"), Some("Invalid Status")}]

\* The JiraIssue a handler builds from an issue of the page.
JiraIssue(issue) ==
    [id |-> issue.id, key |-> issue.key, summary |-> issue.fields.summary,
     issue_type |-> issue.fields.issuetype, status |-> issue.fields.status,
     assignee |-> issue.fields.assignee, labels |-> issue.fields.labels]

\* The try/except of the handlers get_epics / get_stories / get_tasks:
\* the response for what client.get_* gave (res).
handler_reply(res) ==
    IF res.kind = "return"
    THEN [status_code |-> 200,
          body |-> [i \in 1..Len(res.value) |-> JiraIssue(res.value[i])]]
    ELSE [status_code |-> 500, detail |-> res.exc]

\* How many requests to the API one behaviour serves.
MaxRequests == 2

\* GET /jira/<endpoint>: the dependency builds the client, the handler
\* calls client.get_*, which builds the query and sends the first attempt.
WebRequest(op, a) ==
    /\ UNCHANGED llm_vars
    /\ client = NoClient
    /\ history.served < MaxRequests
    /\ client' = get_jira_client
    /\ conn' = "open"
    /\ wire' = Some(clients_search_request(op, a))'
    /\ call' = [pc |-> "awaiting", op |-> op, args |-> a, attempts |-> 1,
                status_errors |-> 0, last |-> None, wait |-> 0]
    /\ UNCHANGED <<env, outcome, history, reply>>

\* The handler receives res from client.get_* and answers; nothing in the
\* router closes the client.
HandlerFinishes(res, resp) ==
    /\ outcome' = Outcome(call.op, call.args, res, call.attempts,
                          call.status_errors + (IF resp.kind = "status_error" THEN 1 ELSE 0),
                          Some(resp))
    /\ reply' = Some(handler_reply(res))
    /\ call' = Idle
    /\ wire' = None
    /\ UNCHANGED <<env, client, conn, history>>

\* The attempt in flight ends with resp: success returns the page's issue
\* list; a failure is retried after a wait unless the stop condition
\* holds, and then RetryError is raised.
WebRespond(resp) ==
    /\ UNCHANGED llm_vars
    /\ client.variant = "clients"
    /\ call.pc = "awaiting"
    /\ LET r == make_request_attempt(resp)
       IN  IF r.kind = "return"
           THEN HandlerFinishes(Return(get_issues(r.value)), resp)
           ELSE IF stop_after_attempt(call.attempts)
           THEN HandlerFinishes(Raise(RetryError(r.exc)), resp)
           ELSE /\ call' = [call EXCEPT
                               !.pc = "backoff", !.last = Some(r.exc),
                               !.wait = wait_exponential(call.attempts),
                               !.status_errors =
                                   @ + (IF resp.kind = "status_error" THEN 1 ELSE 0)]
                /\ wire' = None
                /\ UNCHANGED <<env, client, conn, outcome, history, reply>>

\* The wait is over: _make_request is executed again.
WebRetry ==
    /\ UNCHANGED llm_vars
    /\ client.variant = "clients"
    /\ call.pc = "backoff"
    /\ call' = [call EXCEPT !.pc = "awaiting", !.attempts = @ + 1, !.wait = 0]
    /\ wire' = Some(clients_search_request(call.op, call.args))
    /\ UNCHANGED <<env, client, conn, outcome, history, reply>>

\* The response is sent and the request's scope ends: the client object
\* is dropped; a connection it still holds open stays open.
WebFinish ==
    /\ UNCHANGED llm_vars
    /\ reply.some
    /\ reply' = None
    /\ outcome' = NoOutcome
    /\ client' = NoClient
    /\ conn' = "none"
    /\ history' = [history EXCEPT !.served = @ + 1,
                                  !.open_left = @ + (IF conn = "open" THEN 1 ELSE 0)]
    /\ UNCHANGED <<env, call, wire>>

InitWeb == InitIn(Envs)

NextWeb ==
    \/ \E op \in Endpoints, a \in WebArgs : WebRequest(op, a)
    \/ \E resp \in Responses : WebRespond(resp)
    \/ WebRetry
    \/ WebFinish

SpecWeb == InitWeb /\ [][NextWeb]_vars

\* Every request gets its response or fails (the transport has a timeout),
\* and every wait ends.
FairSpecWeb ==
    SpecWeb /\ WF_vars(\E resp \in Responses : WebRespond(resp)) /\ WF_vars(WebRetry)

\* ---------------------------------------------------- properties: web API

\* The value of the status clause of query text jql is on the allow-list
\* (vacuous when jql has no status clause).
StatusClauseAllowed(jql) ==
    \A i \in 1..Len(jql) :
        jql[i] = "status = \"" => (i < Len(jql) /\ jql[i + 1] \in AllowList)

\* C3 as stated: no search request on the wire carries a status clause
\* whose value is outside the Status Allow-List.
C3_AsStated == wire.some => StatusClauseAllowed(wire.val.params.jql)

\* C6 as stated: with one of JIRA_BASE_URL, JIRA_USERNAME, JIRA_API_TOKEN
\* absent from the environment, an endpoint constructs no client and no
\* request is sent to any host.
C6_AsStated ==
    (\E n \in EnvVars : ~env[n].some) => (client.variant # "clients" /\ wire = None)

\* C8 as stated: when every attempt of a fetch of the retrying client was
\* answered with an HTTP error status, the exception at the caller is
\* httpx.HTTPStatusError.
C8_AsStated ==
    (client.variant = "clients" /\ outcome.op \in GetOps
     /\ outcome.res.kind = "raise" /\ outcome.status_errors = outcome.attempts)
        => outcome.res.exc.type = "HTTPStatusError"

\* One step of a _make_request call obeys the retry discipline.
RetryDiscipline ==
    /\ call'.pc # "idle" => call'.attempts \in 1..3
    /\ (outcome' # outcome /\ outcome'.op \in GetOps) => outcome'.attempts \in 1..3
    \* a request is put on the wire only when a call starts or a wait ends
    /\ (wire = None /\ wire'.some)
          => /\ wire'.val.method = "GET"
             /\ call.pc \in {"idle", "backoff"}
    \* an attempt is re-executed only after the previous one failed
    /\ (call.pc # "idle" /\ call'.pc # "idle" /\ call'.attempts # call.attempts)
          => /\ call.pc = "backoff"
             /\ call.last.some
             /\ call'.attempts = call.attempts + 1
             /\ wire'.some
             /\ wire'.val.method = "GET"
    \* no attempt follows a successful one
    /\ (call.pc = "awaiting" /\ outcome' # outcome /\ outcome'.res.kind = "return")
          => /\ call' = Idle
             /\ wire' = None
             /\ outcome'.transport.val.kind = "json"
    /\ (call.pc = "awaiting" /\ call'.pc = "backoff") => wire' = None

\* C9: a _make_request call makes at most 3 attempts, re-executes the
\* request only after a failed attempt, never after a successful one, every
\* request it sends is a GET, and the call terminates.
C9_BoundedIdempotentRetry ==
    /\ [][RetryDiscipline]_vars
    /\ (call.pc # "idle") ~> (call = Idle)

C9_Witness ==
    /\ call.pc = "awaiting"
    /\ call.attempts = 3
    /\ call.last.some
    /\ wire.some
    /\ wire.val.method = "GET"

\* C10 as stated: once a handler of an issue endpoint has finished (its
\* response exists), the connection of the client built for the request
\* is closed.
C10_AsStated == reply.some => conn = "closed"

\* ------------------------------------- text-generation gateway (LLMClient)

SUPPORTED_PROVIDERS == <<"openai", "vertex", "claude">>

Providers == {"openai", "vertex", "claude"}

\* The credential variable each backend reads.
LLMEnvVars == {"OPENAI_API_KEY", "GOOGLE_CLOUD_PROJECT", "ANTHROPIC_API_KEY"}

\* The environments of the gateway: each credential unset, empty or set.
LLMEnvs == [LLMEnvVars -> {None, Some(""), Some("secret")}]

\* Is key a key of dict d (a sequence of items in insertion order)?
HasKey(d, key) == \E i \in 1..Len(d) : d[i].name = key

\* ', '.join(d.keys())
JoinKeys(d) == Join([i \in 1..Len(d) |-> <<d[i].name>>], ", ")

\* The body shared by _initialize_openai, _initialize_vertex and
\* _initialize_claude: self.clients after the call.  The backend object is
\* stored when the credential is truthy and its constructor does not raise
\* (raises); otherwise the registry is left as it was.
initialize_backend(clients, name, variable, class, raises) ==
    IF TruthyStr(os_getenv(variable))
    THEN IF raises THEN clients
         ELSE Append(clients, [name |-> name, llm |-> class])
    ELSE clients

initialize_openai(clients, raises) ==
    initialize_backend(clients, "openai", "OPENAI_API_KEY", "ChatOpenAI", raises)

initialize_vertex(clients, raises) ==
    initialize_backend(clients, "vertex", "GOOGLE_CLOUD_PROJECT", "VertexAI", raises)

initialize_claude(clients, raises) ==
    initialize_backend(clients, "claude", "ANTHROPIC_API_KEY", "Anthropic", raises)

ConfigurationError ==
    [type |-> "ConfigurationError",
     message |-> <<"No LLM providers configured. Please set up credentials for ",
                   "at least one of the supported providers: ">>
                 \o Join([i \in 1..Len(SUPPORTED_PROVIDERS) |-> <<SUPPORTED_PROVIDERS[i]>>],
                         ", ")]

\* The LLMClient object with registry clients.
LLMClientObject(clients) ==
    [clients |-> clients, default_provider |-> clients[1].name]

\* Faulty variant: the default taken from the last registry entry.
llm_init_last_is_default(faulty) ==
    LET c1 == initialize_openai(<<>>, "openai" \in faulty)
        c2 == initialize_vertex(c1, "vertex" \in faulty)
        c3 == initialize_claude(c2, "claude" \in faulty)
    IN  IF c3 = <<>> THEN Raise(ConfigurationError)
        ELSE Return([clients |-> c3, default_provider |-> c3[Len(c3)].name])

\* Faulty variant: the default provider fixed to the first supported one.
llm_init_default_openai(faulty) ==
    LET c1 == initialize_openai(<<>>, "openai" \in faulty)
        c2 == initialize_vertex(c1, "vertex" \in faulty)
        c3 == initialize_claude(c2, "claude" \in faulty)
    IN  IF c3 = <<>> THEN Raise(ConfigurationError)
        ELSE Return([clients |-> c3, default_provider |-> SUPPORTED_PROVIDERS[1]])

\* Faulty variant: the check for an empty registry left out.
llm_init_unchecked(faulty) ==
    LET c1 == initialize_openai(<<>>, "openai" \in faulty)
        c2 == initialize_vertex(c1, "vertex" \in faulty)
        c3 == initialize_claude(c2, "claude" \in faulty)
    IN  IF c3 = <<>> THEN Return([clients |-> c3, default_provider |-> "openai"])
        ELSE Return(LLMClientObject(c3))

\* LLMClient.__init__ where the constructors of the backends in faulty
\* raise: the object built, or ConfigurationError.
llm_init(faulty) ==
    LET c1 == initialize_openai(<<>>, "openai" \in faulty)
        c2 == initialize_vertex(c1, "vertex" \in faulty)
        c3 == initialize_claude(c2, "claude" \in faulty)
    IN  IF c3 = <<>> THEN Raise(ConfigurationError)
        ELSE Return(LLMClientObject(c3))

\* Loading the application module (main): LLMClient() is constructed once;
\* ConfigurationError is caught and llm_client set to None.
Startup(faulty) ==
    /\ llm_client = NotLoaded
    /\ LET r == llm_init(faulty)
       IN  /\ startup' = [done |-> TRUE, faulty |-> faulty, res |-> r]
           /\ llm_client' = IF r.kind = "return" THEN Some(r.value) ELSE None
    /\ UNCHANGED <<env, gens>>
    /\ UNCHANGED jira_vars

\* ---------------------------------------------------- LLMClient.generate

UnsupportedProvider(selected_provider) ==
    [type |-> "ValueError",
     message |-> <<"Unsupported provider: ", selected_provider, ". ",
                   "Supported providers are: ">>
                 \o Join([i \in 1..Len(SUPPORTED_PROVIDERS) |-> <<SUPPORTED_PROVIDERS[i]>>],
                         ", ")]

UnconfiguredProvider(selected_provider, clients) ==
    [type |-> "ValueError",
     message |-> <<"Provider ", selected_provider, " is not configured. ",
                   "Configured providers are: ">> \o JoinKeys(clients)]

\* Faulty variant: the name is validated but the default backend is used.
generate_select_ignores_name(self, provider) ==
    LET selected_provider == IF TruthyStr(provider) THEN provider.val
                             ELSE self.default_provider
    IN  IF ~InList(selected_provider, SUPPORTED_PROVIDERS)
        THEN Raise(UnsupportedProvider(selected_provider))
        ELSE IF ~HasKey(self.clients, selected_provider)
        THEN Raise(UnconfiguredProvider(selected_provider, self.clients))
        ELSE Return(self.default_provider)

\* Faulty variant: the check of the supported names left out.
generate_select_support_unchecked(self, provider) ==
    LET selected_provider == IF TruthyStr(provider) THEN provider.val
                             ELSE self.default_provider
    IN  IF ~HasKey(self.clients, selected_provider)
        THEN Raise(UnconfiguredProvider(selected_provider, self.clients))
        ELSE Return(selected_provider)

\* The statements of generate before its try block: the provider selected
\* (provider or self.default_provider), or the ValueError raised.
generate_select(self, provider) ==
    LET selected_provider == IF TruthyStr(provider) THEN provider.val
                             ELSE self.default_provider
    IN  IF ~InList(selected_provider, SUPPORTED_PROVIDERS)
        THEN Raise(UnsupportedProvider(selected_provider))
        ELSE IF ~HasKey(self.clients, selected_provider)
        THEN Raise(UnconfiguredProvider(selected_provider, self.clients))
        ELSE Return(selected_provider)

\* self.clients[selected_provider]
llm_of(self, selected_provider) ==
    self.clients[CHOOSE i \in 1..Len(self.clients) :
                    self.clients[i].name = selected_provider].llm

\* Faulty variant: the provider used becomes the default of later calls.
self_remembers_provider(self, selected_provider) ==
    [self EXCEPT !.default_provider = selected_provider]

\* The LLMClient object after a generate call that selected
\* selected_provider: generate assigns no attribute of self.
self_after_generate(self, selected_provider) == self

\* Generated texts, character by character where whitespace matters.
GeneratedTexts ==
    {<<"Hello">>, <<" ", "Hello", " ", "world", "\n">>, <<"\n", " ">>}

\* Failures of a backend call, with the text str(e) gives.
BackendErrors ==
    {[type |-> "APIConnectionError", text |-> <<"Connection error.">>],
     [type |-> "ValueError", text |-> <<"unexpected parameter">>]}

\* What chain.invoke of prompt_template | llm can do: a chat model
\* (ChatOpenAI) returns a message object, a completion model (VertexAI,
\* Anthropic) a plain string, and each can raise.
BackendReplies(class) ==
    (IF class = "ChatOpenAI"
     THEN {[kind |-> "message", content |-> t] : t \in GeneratedTexts}
     ELSE {[kind |-> "str", content |-> t] : t \in GeneratedTexts})
    \cup {[kind |-> "raise", exc |-> e] : e \in BackendErrors}

IsSpace(ch) == ch \in {" ", "\n", "\t"}

\* str.strip()
strip(text) ==
    LET kept == {i \in 1..Len(text) : ~IsSpace(text[i])}
    IN  IF kept = {} THEN <<>>
        ELSE SubSeq(text, CHOOSE i \in kept : \A j \in kept : i <= j,
                          CHOOSE i \in kept : \A j \in kept : i >= j)

\* str(response) of a message object: the field-by-field rendering of the
\* model, content='...' first.
str_of_message(response) ==
    <<"content='">> \o response.content \o <<"'", " additional_kwargs={}">>

RuntimeError(e) ==
    [type |-> "RuntimeError", message |-> <<"Failed to generate response: ">> \o e.text]

\* Faulty variant: the backend's string returned as it came.
generate_result_unstripped(reply_) ==
    IF reply_.kind = "raise" THEN Raise(RuntimeError(reply_.exc))
    ELSE IF reply_.kind = "str" THEN Return(reply_.content)
    ELSE Return(str_of_message(reply_))

\* Faulty variant: the backend's exception re-raised as it is.
generate_result_raw(reply_) ==
    IF reply_.kind = "raise" THEN Raise([type |-> reply_.exc.type, message |-> reply_.exc.text])
    ELSE IF reply_.kind = "str" THEN Return(strip(reply_.content))
    ELSE Return(str_of_message(reply_))

\* The try block of generate, for what chain.invoke did (reply_).
generate_result(reply_) ==
    IF reply_.kind = "raise" THEN Raise(RuntimeError(reply_.exc))
    ELSE IF reply_.kind = "str" THEN Return(strip(reply_.content))
    ELSE Return(str_of_message(reply_))

\* ------------------------------------------------ main: the application

\* LLMProvider: the values of the enumeration.
LLMProvider == {"openai", "vertex", "claude"}

\* Bodies of POST /generate: provider absent or a name, parameters given
\* by their keys.
GenerateRequests ==
    [provider : {None, Some("openai"), Some("vertex"), Some("claude"), Some("gemini")},
     parameters : {<<>>}]
    \cup {[provider |-> None, parameters |-> <<"provider">>]}

\* Validation of the body against LLMRequest.
LLMRequestValid(request) ==
    request.provider.some => request.provider.val \in LLMProvider

\* The framework's answer to a body that fails validation.
RequestValidationError ==
    [status_code |-> 422, detail |-> <<"Input should be 'openai', 'vertex' or 'claude'">>]

HTTPException(status_code, detail) == [status_code |-> status_code, detail |-> detail]

NotInitialized == HTTPException(503, <<"LLM client not initialized properly">>)

\* The framework's answer to an exception no handler catches.
InternalServerError == [status_code |-> 500, detail |-> <<"Internal Server Error">>]

\* generate(prompt, provider=..., **parameters) with a parameter named
\* provider: the call itself raises TypeError.
DuplicateKeyword ==
    [type |-> "TypeError",
     message |-> <<"generate() got multiple values for keyword argument 'provider'">>]

\* root(): the answer of GET /.
root ==
    [status_code |-> 200,
     body |-> [name |-> "My Personal Assistant API", version |-> "0.1.0",
               status |-> "operational"]]

\* Faulty variant: GET /health answers healthy whatever the client.
health_check_always_healthy(client_) ==
    [status_code |-> 200, body |-> [status |-> "healthy"]]

\* health_check(): the answer of GET /health when main.llm_client is client_.
health_check(client_) ==
    IF client_ = None THEN NotInitialized
    ELSE [status_code |-> 200, body |-> [status |-> "healthy"]]

\* Faulty variant: every failure of generate reported as a server error.
generate_text_reply_all_500(res, request, default_provider) ==
    IF res.kind = "return"
    THEN [status_code |-> 200,
          body |-> [text |-> res.value,
                    provider |-> IF request.provider.some THEN request.provider.val
                                 ELSE default_provider,
                    metadata |-> [source |-> "my_personal_assistant_api"]]]
    ELSE HTTPException(500, res.exc.message)

\* The try/except of generate_text around llm_client.generate: the
\* response for what the call gave (res).
generate_text_reply(res, request, default_provider) ==
    IF res.kind = "return"
    THEN [status_code |-> 200,
          body |-> [text |-> res.value,
                    provider |-> IF request.provider.some THEN request.provider.val
                                 ELSE default_provider,
                    metadata |-> [source |-> "my_personal_assistant_api"]]]
    ELSE IF res.exc.type = "ValueError" THEN HTTPException(400, res.exc.message)
    ELSE IF res.exc.type = "RuntimeError" THEN HTTPException(500, res.exc.message)
    ELSE InternalServerError

\* Arguments of a direct generate call: provider omitted, empty, a
\* supported name or another name.
DirectProviders ==
    {None, Some(""), Some("openai"), Some("vertex"), Some("claude"), Some("gemini")}

\* A finished call or request: the backends invoked, what generate gave
\* (res), what the endpoint answered (reply), and what the backend call
\* did when there was one.
GenDone(op, request, invoked, res, rep) ==
    [pc |-> "done", op |-> op, request |-> request, invoked |-> invoked,
     res |-> res, reply |-> rep, backend |-> None]

\* llm_client.generate is entered for caller c (op names who calls it):
\* the provider is selected and validated, then the chain is invoked on
\* the selected backend.
EnterGenerate(c, op, request) ==
    LET sel == generate_select(llm_client.val, request.provider)
    IN  IF sel.kind = "raise"
        THEN /\ gens' = [gens EXCEPT ![c] =
                    GenDone(op, request, <<>>, Some(sel),
                            IF op = "POST /generate"
                            THEN Some(generate_text_reply(sel, request,
                                          llm_client.val.default_provider))
                            ELSE None)]
             /\ UNCHANGED llm_client
        ELSE /\ gens' = [gens EXCEPT ![c] =
                    [pc |-> "invoking", op |-> op, request |-> request,
                     selected |-> sel.value, invoked |-> <<sel.value>>]]
             /\ llm_client' = Some(self_after_generate(llm_client.val, sel.value))

\* A direct call llm_client.generate(prompt, provider) by caller c.
Generate(c, provider) ==
    /\ startup.done
    /\ llm_client.some
    /\ gens[c] = GenIdle
    /\ EnterGenerate(c, "generate", [provider |-> provider, parameters |-> <<>>])
    /\ UNCHANGED <<env, startup>>
    /\ UNCHANGED jira_vars

\* POST /generate with body request: validation of the body, then
\* generate_text up to the backend call.
PostGenerate(c, request) ==
    /\ startup.done
    /\ gens[c] = GenIdle
    /\ IF ~LLMRequestValid(request)
       THEN /\ gens' = [gens EXCEPT ![c] =
                   GenDone("POST /generate", request, <<>>, None,
                           Some(RequestValidationError))]
            /\ UNCHANGED llm_client
       ELSE IF llm_client = None
       THEN /\ gens' = [gens EXCEPT ![c] =
                   GenDone("POST /generate", request, <<>>, None, Some(NotInitialized))]
            /\ UNCHANGED llm_client
       ELSE IF InList("provider", request.parameters)
       THEN /\ gens' = [gens EXCEPT ![c] =
                   GenDone("POST /generate", request, <<>>, Some(Raise(DuplicateKeyword)),
                           Some(generate_text_reply(Raise(DuplicateKeyword), request,
                                    llm_client.val.default_provider)))]
            /\ UNCHANGED llm_client
       ELSE EnterGenerate(c, "POST /generate", request)
    /\ UNCHANGED <<env, startup>>
    /\ UNCHANGED jira_vars

\* chain.invoke of caller c's call ends with reply_; generate returns or
\* raises, and for a request the handler answers.
BackendResponds(c, reply_) ==
    /\ gens[c].pc = "invoking"
    /\ reply_ \in BackendReplies(llm_of(llm_client.val, gens[c].selected))
    /\ LET res == generate_result(reply_)
       IN  gens' = [gens EXCEPT ![c] =
               [GenDone(gens[c].op, gens[c].request, gens[c].invoked, Some(res),
                        IF gens[c].op = "POST /generate"
                        THEN Some(generate_text_reply(res, gens[c].request,
                                      llm_client.val.default_provider))
                        ELSE None)
                   EXCEPT !.backend = Some(reply_)]]
    /\ UNCHANGED <<env, llm_client, startup>>
    /\ UNCHANGED jira_vars

NoRequest == [provider |-> None, parameters |-> <<>>]

\* GET /health
GetHealth(c) ==
    /\ startup.done
    /\ gens[c] = GenIdle
    /\ gens' = [gens EXCEPT ![c] =
           GenDone("GET /health", NoRequest, <<>>, None, Some(health_check(llm_client)))]
    /\ UNCHANGED <<env, llm_client, startup>>
    /\ UNCHANGED jira_vars

\* GET /
GetRoot(c) ==
    /\ startup.done
    /\ gens[c] = GenIdle
    /\ gens' = [gens EXCEPT ![c] = GenDone("GET /", NoRequest, <<>>, None, Some(root))]
    /\ UNCHANGED <<env, llm_client, startup>>
    /\ UNCHANGED jira_vars

\* Caller c has taken its result and may call again.
GenReturns(c) ==
    /\ gens[c].pc = "done"
    /\ gens' = [gens EXCEPT ![c] = GenIdle]
    /\ UNCHANGED <<env, llm_client, startup>>
    /\ UNCHANGED jira_vars

\* The replies of every backend class.
AllBackendReplies == BackendReplies("ChatOpenAI") \cup BackendReplies("VertexAI")

\* Construction of the gateway alone: every environment, every set of
\* backends whose constructor raises.
InitLLMCtor == InitIn(LLMEnvs)

NextLLMCtor == \E faulty \in SUBSET Providers : Startup(faulty)

SpecLLMCtor == InitLLMCtor /\ [][NextLLMCtor]_vars

\* The gateway in every deployment (every environment, every set of
\* raising constructors), used by one caller at a time.
InitLLMAll == InitIn(LLMEnvs)

NextLLMAll ==
    \/ \E faulty \in SUBSET Providers : Startup(faulty)
    \/ \E provider \in DirectProviders : Generate("a", provider)
    \/ \E request \in GenerateRequests : PostGenerate("a", request)
    \/ \E reply_ \in AllBackendReplies : BackendResponds("a", reply_)
    \/ GenReturns("a")

SpecLLMAll == InitLLMAll /\ [][NextLLMAll]_vars

\* The environments in which each credential is unset or set.
LLMEnvsSet == [LLMEnvVars -> {None, Some("secret")}]

\* The application with its callers: no constructor raises, or that of
\* the first backend does.
InitLLM == InitIn(LLMEnvsSet)

NextLLM ==
    \/ \E faulty \in {{}, {"openai"}} : Startup(faulty)
    \/ \E c \in Callers, provider \in DirectProviders : Generate(c, provider)
    \/ \E c \in Callers, request \in GenerateRequests : PostGenerate(c, request)
    \/ \E c \in Callers, reply_ \in AllBackendReplies : BackendResponds(c, reply_)
    \/ \E c \in Callers : GetHealth(c)
    \/ \E c \in Callers : GetRoot(c)
    \/ \E c \in Callers : GenReturns(c)

SpecLLM == InitLLM /\ [][NextLLM]_vars

\* ------------------------------------ properties: gateway construction

\* The backends in the priority order of the specification.
PriorityOrder == <<"openai", "vertex", "claude">>

CredentialOf(name) ==
    CASE name = "openai" -> "OPENAI_API_KEY"
      [] name = "vertex" -> "GOOGLE_CLOUD_PROJECT"
      [] name = "claude" -> "ANTHROPIC_API_KEY"

\* Backend name has its credential and its constructor did not raise.
Initialised(name) ==
    /\ env[CredentialOf(name)].some
    /\ env[CredentialOf(name)].val # ""
    /\ name \notin startup.faulty

\* The positions in the priority order of the backends that initialised.
InitialisedRanks == {k \in 1..3 : Initialised(PriorityOrder[k])}

\* The keys of registry d are exactly the initialised backends, in
\* priority order.
RegistryInPriorityOrder(d) ==
    /\ Len(d) = Cardinality(InitialisedRanks)
    /\ \A k \in InitialisedRanks : HasKey(d, PriorityOrder[k])
    /\ \A i, j \in 1..Len(d) :
          i < j => \E k, l \in InitialisedRanks :
                      /\ k < l
                      /\ d[i].name = PriorityOrder[k]
                      /\ d[j].name = PriorityOrder[l]

\* C11: when at least one backend initialises, LLMClient() succeeds
\* although others lack their credential or raise; the registry holds
\* exactly the initialised backends in the order openai, vertex, claude,
\* and default_provider is the first of them in that order.
C11_DefaultIsHighestPriority ==
    (startup.done /\ InitialisedRanks # {})
        => /\ startup.res.kind = "return"
           /\ llm_client = Some(startup.res.value)
           /\ RegistryInPriorityOrder(llm_client.val.clients)
           /\ \E k \in InitialisedRanks :
                 /\ \A l \in InitialisedRanks : k <= l
                 /\ llm_client.val.default_provider = PriorityOrder[k]

C11_Witness ==
    /\ startup.done
    /\ startup.faulty = {"openai"}
    /\ TruthyStr(env["OPENAI_API_KEY"])
    /\ TruthyStr(env["GOOGLE_CLOUD_PROJECT"])
    /\ TruthyStr(env["ANTHROPIC_API_KEY"])
    /\ llm_client.some
    /\ llm_client.val.default_provider = "vertex"
    /\ Len(llm_client.val.clients) = 2

\* C12: when no backend initialises (no credential, or every backend with
\* a credential raises), LLMClient() raises ConfigurationError whose
\* message names openai, vertex and claude, and the application has no
\* client; a client that exists never has an empty registry.
C12_NoBackendIsAnError ==
    /\ (startup.done /\ InitialisedRanks = {})
          => /\ startup.res.kind = "raise"
             /\ startup.res.exc.type = "ConfigurationError"
             /\ \A k \in 1..3 : Contains(startup.res.exc.message, PriorityOrder[k])
             /\ llm_client = None
    /\ (startup.done /\ llm_client # None) => llm_client.val.clients # <<>>

C12_Witness ==
    /\ startup.done
    /\ startup.res.kind = "raise"
    /\ TruthyStr(env["ANTHROPIC_API_KEY"])
    /\ env["OPENAI_API_KEY"] = Some("")
    /\ env["GOOGLE_CLOUD_PROJECT"] = None
    /\ llm_client = None

\* ------------------------------------------------ properties: generate

\* The generate calls that have finished, made directly or by the endpoint.
Finished(c) == gens[c].pc = "done" /\ gens[c].res.some

\* Every fragment of text part occurs in text whole, as one run.
HasRun(whole, part) ==
    \E i \in 0..(Len(whole) - Len(part)) : SubSeq(whole, i + 1, i + Len(part)) = part

\* C13: a generate call with an explicit name outside openai, vertex,
\* claude raises ValueError naming the three supported backends; with a
\* supported name that is not in the registry it raises ValueError naming
\* the configured backends (the registry's keys, in order); in both cases
\* no backend is invoked and the error is not a RuntimeError; a call
\* whose backend is being invoked selected a configured, supported backend.
C13_ExplicitProviderRejected ==
    \A c \in Callers :
        /\ (Finished(c) /\ TruthyStr(gens[c].request.provider))
              => LET name == gens[c].request.provider.val
                     res == gens[c].res.val
                 IN  /\ name \notin {"openai", "vertex", "claude"}
                           => /\ res.kind = "raise"
                              /\ res.exc.type = "ValueError"
                              /\ HasRun(res.exc.message, <<"Unsupported provider: ", name>>)
                              /\ HasRun(res.exc.message,
                                        <<"openai", ", ", "vertex", ", ", "claude">>)
                              /\ gens[c].invoked = <<>>
                              /\ gens[c].backend = None
                     /\ (name \in {"openai", "vertex", "claude"}
                         /\ ~HasKey(llm_client.val.clients, name))
                           => /\ res.kind = "raise"
                              /\ res.exc.type = "ValueError"
                              /\ HasRun(res.exc.message, <<"Provider ", name>>)
                              /\ \A k \in 1..3 :
                                    (PriorityOrder[k] # name)
                                        => (Contains(res.exc.message, PriorityOrder[k])
                                            <=> HasKey(llm_client.val.clients,
                                                       PriorityOrder[k]))
                              /\ gens[c].invoked = <<>>
                              /\ gens[c].backend = None
        /\ gens[c].pc = "invoking"
              => /\ gens[c].selected \in {"openai", "vertex", "claude"}
                 /\ HasKey(llm_client.val.clients, gens[c].selected)

C13_Witness ==
    /\ gens["a"].pc = "done"
    /\ gens["a"].op = "generate"
    /\ gens["a"].request.provider = Some("gemini")
    /\ gens["a"].res.val.kind = "raise"
    /\ gens["b"].pc = "done"
    /\ gens["b"].op = "generate"
    /\ gens["b"].request.provider = Some("claude")
    /\ gens["b"].res.val.kind = "raise"
    /\ Contains(gens["b"].res.val.exc.message, "vertex")
    /\ llm_client.val.default_provider = "vertex"

\* C14: whenever the backend call of a generate call raised, generate
\* raises RuntimeError whose message ends with the text of the backend's
\* exception: never that exception itself, never a return value.
C14_BackendFailureWrapped ==
    \A c \in Callers :
        (Finished(c) /\ gens[c].backend.some /\ gens[c].backend.val.kind = "raise")
            => /\ gens[c].res.val.kind = "raise"
               /\ gens[c].res.val.exc.type = "RuntimeError"
               /\ gens[c].res.val.exc.message
                    = <<"Failed to generate response: ">> \o gens[c].backend.val.exc.text
               /\ HasRun(gens[c].res.val.exc.message, gens[c].backend.val.exc.text)

C14_Witness ==
    /\ gens["a"].pc = "done"
    /\ gens["a"].op = "generate"
    /\ gens["a"].backend.some
    /\ gens["a"].backend.val.kind = "raise"
    /\ gens["a"].backend.val.exc.type = "ValueError"
    /\ gens["a"].res.val.exc.type = "RuntimeError"
    /\ Contains(gens["a"].res.val.exc.message, "unexpected parameter")

\* Text has neither leading nor trailing whitespace.
Trimmed(text) == text # <<>> => (~IsSpace(text[1]) /\ ~IsSpace(text[Len(text)]))

C16_RegistryNeverModified ==
    startup.done
        => llm_client = IF startup.res.kind = "return" THEN Some(startup.res.value)
                        ELSE None

C16_Witness ==
    /\ startup.done
    /\ llm_client.some
    /\ llm_client.val.default_provider = "openai"
    /\ gens["a"].pc = "invoking"
    /\ gens["a"].selected = "claude"
    /\ gens["b"].pc = "done"
    /\ gens["b"].invoked = <<"vertex">>
    /\ gens["b"].res.val.kind = "raise"

\* --------------------------------------------- properties: the endpoints

\* C17 as stated: when construction of the gateway failed at startup,
\* neither GET /health nor GET / answers with a healthy or operational
\* status.
C17_AsStated ==
    \A c \in Callers :
        (gens[c].pc = "done" /\ gens[c].op \in {"GET /health", "GET /"}
         /\ llm_client = None)
            => gens[c].reply.val.status_code # 200

\* A finished POST /generate request of caller c.
Posted(c) == gens[c].pc = "done" /\ gens[c].op = "POST /generate"

\* The request names a backend outside openai, vertex, claude.
NamesUnsupported(request) ==
    request.provider.some /\ request.provider.val \notin {"openai", "vertex", "claude"}

\* The request names a supported backend that the gateway did not
\* initialise.
NamesUninitialised(request) ==
    /\ request.provider.some
    /\ request.provider.val \in {"openai", "vertex", "claude"}
    /\ llm_client.some
    /\ ~HasKey(llm_client.val.clients, request.provider.val)

\* C18 as stated: on POST /generate a request naming an unsupported or
\* not initialised backend is answered 400, a failed backend call 500, an
\* uninitialised gateway 503 (or 400 when the request also names an
\* unsupported backend), and none of them 200.
C18_AsStated ==
    \A c \in Callers :
        Posted(c)
            => /\ (llm_client.some /\ (\/ NamesUnsupported(gens[c].request)
                                       \/ NamesUninitialised(gens[c].request)))
                     => gens[c].reply.val.status_code = 400
               /\ (gens[c].backend.some /\ gens[c].backend.val.kind = "raise")
                     => gens[c].reply.val.status_code = 500
               /\ llm_client = None
                     => \/ gens[c].reply.val.status_code = 503
                        \/ /\ NamesUnsupported(gens[c].request)
                           /\ gens[c].reply.val.status_code = 400

\* C18 (amended): on POST /generate a request naming an unsupported
\* backend is rejected by the validation of the body with 422, before the
\* handler and whatever the gateway's state; a valid request is answered
\* 503 when the gateway is uninitialised, 400 when it names a supported
\* backend that is not initialised, 500 when the backend call failed; and
\* none of these is answered 200 or carries generated text.
C18_FailuresMappedToStatus ==
    \A c \in Callers :
        Posted(c)
            => /\ NamesUnsupported(gens[c].request)
                     => /\ gens[c].reply.val.status_code = 422
                        /\ gens[c].res = None
                        /\ gens[c].invoked = <<>>
               /\ NamesUninitialised(gens[c].request)
                     => /\ gens[c].reply.val.status_code = 400
                        /\ gens[c].reply.val.detail = gens[c].res.val.exc.message
               /\ (gens[c].backend.some /\ gens[c].backend.val.kind = "raise")
                     => /\ gens[c].reply.val.status_code = 500
                        /\ HasRun(gens[c].reply.val.detail, gens[c].backend.val.exc.text)
               /\ (llm_client = None /\ ~NamesUnsupported(gens[c].request))
                     => gens[c].reply.val.status_code = 503
               /\ gens[c].reply.val.status_code = 200
                     => /\ llm_client.some
                        /\ gens[c].res.val.kind = "return"
                        /\ gens[c].backend.val.kind # "raise"

C18_Witness ==
    /\ Posted("a")
    /\ NamesUninitialised(gens["a"].request)
    /\ gens["a"].reply.val.status_code = 400
    /\ Posted("b")
    /\ gens["b"].backend.some
    /\ gens["b"].backend.val.kind = "raise"
    /\ gens["b"].backend.val.exc.type = "ValueError"
    /\ gens["b"].reply.val.status_code = 500

\* C19 as stated: an issue endpoint answers a request whose status filter
\* is outside the Status Allow-List with a client-error status (4xx), and
\* a request whose fetch failed in the transport with a server-error
\* status (5xx).
C19_AsStated ==
    (reply.some /\ outcome.op \in GetOps)
        => IF TruthyStr(outcome.args.status) /\ outcome.args.status.val \notin AllowList
           THEN reply.val.status_code \in 400..499
           ELSE (outcome.transport.val.kind # "json")
                    => reply.val.status_code \in 500..599

\* ------------------------------------ properties: core convenience calls

\* The issue-type clause the specification fixes for each operation.
FixedTypeClause(op) ==
    CASE op = "get_epics" -> <<"issueType in (", "\"", "Epic", "\"", ")">>
      [] op = "get_stories" -> <<"issueType in (", "\"", "Story", "\"", ")">>
      [] op = "get_tasks" ->
            <<"issueType in (", "\"", "Task", "\"", ", ", "\"", "Sub-task", "\"", ")">>

\* The Filter Set of a get_* call with arguments a: the caller's filters
\* and some (non-empty) issue-type list.
FilterOf(a) ==
    [project_key |-> a.project_key, issue_types |-> Some(<<"fixed">>),
     labels |-> a.labels, assignee |-> a.assignee, status |-> a.status]

\* Query jql carries the caller's filters of a and the fixed type clause.
QueryOfCall(op, a, jql) ==
    /\ jql # <<>>
    /\ ClausesInOrder(FilterOf(a), jql)
    /\ HasRun(jql, FixedTypeClause(op))
    /\ TruthyStr(a.project_key) => HasRun(jql, <<"project = ", a.project_key.val>>)
    /\ TruthyList(a.labels)
          => HasRun(jql, <<"labels in (", "\"", a.labels.val[1], "\"">>)
    /\ TruthyStr(a.assignee) => HasRun(jql, <<"assignee = \"", a.assignee.val, "\"">>)
    /\ TruthyStr(a.status) => HasRun(jql, <<"status = \"", a.status.val, "\"">>)

\* C20: a core get_epics / get_stories / get_tasks call that passes
\* validation makes one search: one GET of "search" whose jql is the
\* caller's filters with the issue types fixed to Epic, Story, or Task and
\* Sub-task (never empty), with search_issues' default paging and the
\* caller's fields (joined by ","; the default list when none are given);
\* it returns the page's issue list, the empty list when the page has no
\* "issues" entry.
C20_GetDelegatesToSearch ==
    /\ (call.pc = "awaiting" /\ call.op \in GetOps)
          => /\ wire.some
             /\ wire.val.method = "GET"
             /\ wire.val.url[Len(wire.val.url)] = "search"
             /\ QueryOfCall(call.op, call.args, wire.val.params.jql)
             /\ wire.val.params.startAt = 0
             /\ wire.val.params.maxResults = 50
             /\ wire.val.params.fields
                  = IF call.args.fields.some
                    THEN <<call.args.fields.val[1], ",", call.args.fields.val[2]>>
                    ELSE <<"summary", ",", "status", ",", "assignee", ",", "labels", ",",
                           "issuetype", ",", "priority", ",", "reporter", ",", "created",
                           ",", "updated", ",", "duedate", ",", "parent">>
             /\ call.attempts = 1
    /\ (outcome.op \in GetOps /\ outcome.transport.some)
          => /\ outcome.attempts = 1
             /\ outcome.transport.val.kind = "json"
                   => outcome.res
                        = Return(IF outcome.transport.val.page.issues.some
                                 THEN outcome.transport.val.page.issues.val
                                 ELSE <<>>)

C20_Witness ==
    /\ outcome.op = "get_tasks"
    /\ outcome.args.project_key = Some("PROJ")
    /\ outcome.args.status = Some("Backlog")
    /\ outcome.args.fields.some
    /\ outcome.transport.some
    /\ outcome.transport.val.kind = "json"
    /\ ~outcome.transport.val.page.issues.some
    /\ outcome.res = Return(<<>>)

\* -------------------------------------- properties: core clause contents

\* In text v the clause opened by head lists the elements of xs, each once
\* and in the order of xs, each wrapped in double quotes, separated by
\* ", " and closed by ")", and the clause ends there.
ListsQuoted(v, head, xs) ==
    LET i == IndexOf(v, head)
        n == Len(xs)
    IN  /\ Count(v, head) = 1
        /\ Len(v) >= i + 4 * n
        /\ \A k \in 1..n :
              /\ v[i + 4 * k - 3] = "\""
              /\ v[i + 4 * k - 2] = xs[k]
              /\ v[i + 4 * k - 1] = "\""
              /\ v[i + 4 * k] = IF k < n THEN ", " ELSE ")"
        /\ Len(v) > i + 4 * n => v[i + 4 * n + 1] = " AND "

DefaultFieldList ==
    <<"summary", ",", "status", ",", "assignee", ",", "labels", ",", "issuetype", ",",
      "priority", ",", "reporter", ",", "created", ",", "updated", ",", "duedate", ",",
      "parent">>

\* C22: a core search_issues call sends one GET to "search" whose
\* parameters are the caller's jql unchanged, startAt (0 unless given),
\* maxResults (50 unless given) and fields (the caller's list joined by
\* "," when it is non-empty, else the default list), makes no second
\* attempt, and returns the result page as the tracker gave it.
C22_SearchIssuesRequest ==
    /\ (call.pc = "awaiting" /\ call.op = "search_issues")
          => /\ wire.some
             /\ wire.val.method = "GET"
             /\ wire.val.url[Len(wire.val.url)] = "search"
             /\ DOMAIN wire.val.params = {"jql", "startAt", "maxResults", "fields"}
             /\ wire.val.params.jql = call.args.jql
             /\ wire.val.params.startAt
                  = IF call.args.start_at.some THEN call.args.start_at.val ELSE 0
             /\ wire.val.params.maxResults
                  = IF call.args.max_results.some THEN call.args.max_results.val ELSE 50
             /\ wire.val.params.fields
                  = IF call.args.fields.some /\ Len(call.args.fields.val) = 2
                    THEN <<call.args.fields.val[1], ",", call.args.fields.val[2]>>
                    ELSE DefaultFieldList
             /\ call.attempts = 1
    /\ (outcome.op = "search_issues" /\ outcome.transport.some)
          => /\ outcome.attempts = 1
             /\ outcome.transport.val.kind = "json"
                   => outcome.res = Return(outcome.transport.val.page)

C22_Witness ==
    /\ outcome.op = "search_issues"
    /\ outcome.args.jql = <<"project = ", "PROJ">>
    /\ outcome.args.fields = Some(<<>>)
    /\ outcome.args.start_at = Some(10)
    /\ outcome.args.max_results = None
    /\ outcome.transport.val.kind = "json"
    /\ outcome.res.kind = "return"
    /\ outcome.res.value.total = 2

\* ------------------------------------------ properties: empty filter values

\* Filter Set f with every empty field (empty string, empty list) omitted.
WithoutEmpty(f) ==
    [project_key |-> IF f.project_key = Some("") THEN None ELSE f.project_key,
     issue_types |-> IF f.issue_types = Some(<<>>) THEN None ELSE f.issue_types,
     labels |-> IF f.labels = Some(<<>>) THEN None ELSE f.labels,
     assignee |-> IF f.assignee = Some("") THEN None ELSE f.assignee,
     status |-> IF f.status = Some("") THEN None ELSE f.status]

\* The Filter Set whose five fields are all given and all empty.
AllEmpty ==
    [project_key |-> Some(""), issue_types |-> Some(<<>>), labels |-> Some(<<>>),
     assignee |-> Some(""), status |-> Some("")]

\* C23: what core _build_jql_query gives for a Filter Set is what it gives
\* for the same Filter Set with every empty string and empty list
\* omitted; an empty field contributes no clause, an empty status raises
\* no FilterValidationError, and five empty fields give the empty query.
C23_EmptyIsAbsent ==
    outcome.op = "_build_jql_query"
        => LET f == outcome.args
               g == WithoutEmpty(outcome.args)
           IN  /\ outcome.res = build_jql_query(g.project_key, g.issue_types, g.labels,
                                                g.assignee, g.status)
               /\ f.status = Some("")
                     => /\ outcome.res.kind = "return"
                        /\ ~Contains(outcome.res.value, "status = \"")
               /\ outcome.res.kind = "return"
                     => /\ f.project_key = Some("")
                              => ~Contains(outcome.res.value, "project = ")
                        /\ f.issue_types = Some(<<>>)
                              => ~Contains(outcome.res.value, "issueType in (")
                        /\ f.labels = Some(<<>>)
                              => ~Contains(outcome.res.value, "labels in (")
                        /\ f.assignee = Some("")
                              => ~Contains(outcome.res.value, "assignee = \"")
               /\ f = AllEmpty => outcome.res = Return(<<>>)

C23_Witness ==
    /\ outcome.op = "_build_jql_query"
    /\ outcome.args.status = Some("")
    /\ outcome.args.labels = Some(<<>>)
    /\ outcome.args.project_key = Some("PROJ")
    /\ outcome.args.assignee = None
    /\ outcome.args.issue_types = None
    /\ outcome.res = Return(<<"project = ", "PROJ">>)

\* --------------------------------------- properties: the built gateway

\* C24: once LLMClient() has succeeded, in whatever environment and
\* whichever constructors raised, and whatever generate calls followed,
\* the registry is not empty, its keys are among openai, vertex, claude,
\* and default_provider is one of its keys; a generate call without an
\* explicit backend (None or "") never ends with a ValueError: its backend
\* call is made, on default_provider.
C24_DefaultProviderUsable ==
    /\ (startup.done /\ startup.res.kind = "return")
          => /\ llm_client.some
             /\ llm_client.val.clients # <<>>
             /\ \A i \in 1..Len(llm_client.val.clients) :
                   llm_client.val.clients[i].name \in {"openai", "vertex", "claude"}
             /\ HasKey(llm_client.val.clients, llm_client.val.default_provider)
    /\ \A c \in Callers :
          /\ (Finished(c) /\ llm_client.some /\ ~TruthyStr(gens[c].request.provider))
                => /\ ~(gens[c].res.val.kind = "raise"
                        /\ gens[c].res.val.exc.type = "ValueError")
                   /\ gens[c].request.parameters = <<>>
                         => /\ gens[c].backend.some
                            /\ gens[c].invoked = <<llm_client.val.default_provider>>
          /\ (gens[c].pc = "invoking" /\ ~TruthyStr(gens[c].request.provider))
                => gens[c].selected = llm_client.val.default_provider

C24_Witness ==
    /\ startup.done
    /\ startup.faulty = {"openai", "vertex"}
    /\ \A n \in LLMEnvVars : TruthyStr(env[n])
    /\ gens["a"].pc = "done"
    /\ gens["a"].op = "generate"
    /\ gens["a"].request.provider = Some("")
    /\ gens["a"].invoked = <<"claude">>
    /\ gens["a"].res.val.kind = "return"

\* ------------------------------------------ properties: backend calls

\* The backend a call with this request is to use: the one named, or
\* default_provider when none is named.
BackendFor(request) ==
    IF request.provider.some /\ request.provider.val # "" THEN request.provider.val
    ELSE llm_client.val.default_provider

\* The backends invoked for caller c's call, in every state of the call.
OneBackendOnce(c) ==
    /\ gens[c].pc = "invoking"
          => /\ gens[c].invoked = <<BackendFor(gens[c].request)>>
             /\ gens[c].selected = BackendFor(gens[c].request)
    /\ gens[c].pc = "done"
          => /\ Len(gens[c].invoked) <= 1
             /\ gens[c].backend.some
                   => /\ gens[c].invoked = <<BackendFor(gens[c].request)>>
                      /\ gens[c].res.some
             /\ gens[c].backend = None => gens[c].invoked = <<>>
             /\ (gens[c].backend.some /\ gens[c].backend.val.kind = "raise")
                   => /\ gens[c].res.val.kind = "raise"
                      /\ gens[c].res.val.exc.type = "RuntimeError"

\* The step that follows a backend call of caller c ends the call: no
\* second invocation, of the same or of another backend.
EndsAtFirstReply(c) ==
    (gens[c].pc = "invoking" /\ gens'[c] # gens[c])
        => /\ gens'[c].pc = "done"
           /\ gens'[c].invoked = gens[c].invoked
           /\ gens'[c].backend.some

\* C25: a generate call invokes at most one backend, at most once: the
\* one named explicitly, or default_provider when none is named; when the
\* backend call fails, generate raises at once, without invoking that
\* backend again or another one.
C25_OneBackendNoFallback ==
    /\ [](\A c \in Callers : OneBackendOnce(c))
    /\ [][\A c \in Callers : EndsAtFirstReply(c)]_vars

C25_Witness ==
    /\ startup.done
    /\ llm_client.some
    /\ Len(llm_client.val.clients) = 3
    /\ gens["a"].pc = "done"
    /\ gens["a"].request.provider = Some("claude")
    /\ gens["a"].backend.some
    /\ gens["a"].backend.val.kind = "raise"
    /\ gens["a"].invoked = <<"claude">>
    /\ gens["a"].res.val.exc.type = "RuntimeError"
    /\ gens["b"].pc = "invoking"
    /\ gens["b"].request.provider = None
    /\ gens["b"].invoked = <<"openai">>

====
